---- MODULE Spec2Model ----
(***************************************************************************)
(* avds: the interactive pipeline of bin/avd-runner.js (class AVDLauncher). *)
(*                                                                         *)
(* Node runs every callback to completion, and the promise continuations   *)
(* it wakes run before the next callback.  An action of this module is     *)
(* therefore one callback of the source (an exec callback, a keypress, an  *)
(* answered prompt, a timer, a signal) together with the code of run()     *)
(* that it resumes, up to the next point where run() waits.  pc names the  *)
(* await at which run() is suspended.                                      *)
(***************************************************************************)
EXTENDS Integers, Sequences, FiniteSets, TLC

\* ---------------------------------------------------------------- bounds
MaxAvds == 3        \* longest inventory the discovery command reports
MaxTimers == 1      \* redraw timers pending at once
MaxOut == 4         \* longest output of the discovery command, in characters

\* ------------------------------------------------------ program constants
LaunchDelayMs == 3000

Names == {"Pixel_5", "Pixel_7"}

VARIABLES
    useInquirer,    \* module-level flag: require('inquirer') succeeded
    listMode,       \* argv.list: the process was started with --list
    stdout,         \* the output of the discovery command that is being parsed
    discovery,      \* how the discovery command of this run ended
    exitBy,         \* which process.exit call ended the process
    lastKey,        \* the key of the latest handleKeypress call
    lateClear,      \* displayMenu has cleared the console after the selector returned
    pc,             \* the await at which run() is suspended
    exitCode,       \* argument of process.exit, -1 while the process lives
    avds,           \* this.avds
    selectedAVDs,   \* this.selectedAVDs
    selected,       \* selectAVDsBuiltIn: the checked array
    currentIndex,   \* selectAVDsBuiltIn: the cursor, 0-based as in the source
    rawMode,        \* process.stdin raw mode
    listening,      \* handleKeypress is registered on process.stdin
    timers,         \* pending setTimeout(displayMenu, 1500)
    launchMode,     \* run(): const launchMode
    confirmed,      \* run(): const confirmed
    lpc,            \* the await at which the launchAVDs* method is suspended
    idx,            \* loop position of launchAVDsDelayed / launchAVDsSequential, 1-based
    spawns,         \* per selected position: exec calls made by launchAVD
    resolved,       \* per selected position: the promise of launchAVD is settled
    okCount,        \* per selected position: success reports written
    failCount,      \* per selected position: failure reports written
    emitting,       \* position whose child 'error' event is being emitted, 0 if none
    log,            \* what the scheduler did in this run, in order
    completed       \* run() has written the completion report of this run

vars == <<useInquirer, listMode, stdout, discovery, exitBy, lastKey, lateClear,
          pc, exitCode, avds, selectedAVDs, selected,
          currentIndex, rawMode, listening, timers, launchMode, confirmed,
          lpc, idx, spawns, resolved, okCount, failCount, emitting, log,
          completed>>

fixedVars == <<useInquirer, listMode, stdout>>
exitVars == <<exitCode, exitBy>>
selectorVars == <<selected, currentIndex, rawMode, listening, timers>>
reportVars == <<resolved, okCount, failCount, emitting>>
schedVars == <<lpc, idx, spawns, log, completed>>

\* ------------------------------------------------------------- helpers
SeqsUpTo(S, n) == UNION {[1..k -> S] : k \in 0..n}

Zeros(n) == [j \in 1..n |-> 0]
Falses(n) == [j \in 1..n |-> FALSE]

\* mutant of FilterByIndex: an entry is kept when its name is checked anywhere
RECURSIVE FilterByIndexByName(_, _, _)
FilterByIndexByName(s, keep, i) ==
    IF i > Len(s) THEN <<>>
    ELSE (IF \E j \in 1..Len(s) : keep[j] /\ s[j] = s[i] THEN <<s[i]>> ELSE <<>>)
         \o FilterByIndexByName(s, keep, i + 1)

\* Array.prototype.filter over positions: the entries of s whose position keeps
RECURSIVE FilterByIndex(_, _, _)
FilterByIndex(s, keep, i) ==
    IF i > Len(s) THEN <<>>
    ELSE (IF keep[i] THEN <<s[i]>> ELSE <<>>) \o FilterByIndex(s, keep, i + 1)

\* the white space and line terminators String.prototype.trim strips
WhiteSpace == {" ", "\t", "\n", "\r"}

\* String.prototype.trim, a string being a sequence of characters
RECURSIVE TrimLeft(_)
TrimLeft(s) ==
    IF s # <<>> /\ Head(s) \in WhiteSpace THEN TrimLeft(Tail(s)) ELSE s

RECURSIVE TrimRight(_)
TrimRight(s) ==
    IF s # <<>> /\ s[Len(s)] \in WhiteSpace
    THEN TrimRight(SubSeq(s, 1, Len(s) - 1)) ELSE s

Trim(s) == TrimRight(TrimLeft(s))

\* String.prototype.split with a one-character separator
RECURSIVE Split(_, _)
Split(s, sep) ==
    IF \A k \in 1..Len(s) : s[k] # sep THEN <<s>>
    ELSE LET k == CHOOSE k \in 1..Len(s) :
                      s[k] = sep /\ \A j \in 1..(k - 1) : s[j] # sep
         IN <<SubSeq(s, 1, k - 1)>> \o Split(SubSeq(s, k + 1, Len(s)), sep)

\* .filter(avd => avd.trim() !== ''): the lines are kept as they are
RECURSIVE NonBlank(_)
NonBlank(lines) ==
    IF lines = <<>> THEN <<>>
    ELSE (IF Trim(Head(lines)) # <<>> THEN <<Head(lines)>> ELSE <<>>)
         \o NonBlank(Tail(lines))

\* stdout.trim().split('\n').filter(avd => avd.trim() !== '')
ParseAVDs(out) == NonBlank(Split(Trim(out), "\n"))

LowerChar(c) ==
    CASE c = "Y" -> "y"
      [] c = "N" -> "n"
      [] c = "E" -> "e"
      [] c = "S" -> "s"
      [] c = "O" -> "o"
      [] OTHER -> c

ToLowerCase(s) == [k \in 1..Len(s) |-> LowerChar(s[k])]

StartsWith(s, c) == Len(s) >= 1 /\ s[1] = c

\* ------------------------------------------------------------- inputs
\* the characters of the discovery command's output
Chars == {"a", "b", " ", "\n", "\r"}

\* the texts the discovery command can print
Outputs == SeqsUpTo(Chars, MaxOut)

\* the device lists the discovery command can deliver
Inventories == SeqsUpTo(Names, MaxAvds)

Keys == { [name |-> "up", ctrl |-> FALSE],
          [name |-> "down", ctrl |-> FALSE],
          [name |-> "space", ctrl |-> FALSE],
          [name |-> "return", ctrl |-> FALSE],
          [name |-> "q", ctrl |-> FALSE],
          [name |-> "c", ctrl |-> TRUE],
          [name |-> "c", ctrl |-> FALSE],
          [name |-> "x", ctrl |-> FALSE] }

StrategyAnswers == { <<"1">>, <<"2">>, <<"3">>, <<" ", "3", " ">>, <<"4">>, <<>> }

ConfirmAnswers == { <<"y">>, <<"Y">>, <<"Y", "E", "S">>, <<"y", "e", "s">>,
                    <<"n">>, <<"n", "o">>, <<" ", "y">>, <<>> }

LaunchModes == {"parallel", "delayed", "sequential"}

\* how one exec of launchAVD can end: the command ran and exited 0 ("ok"), it
\* exited non-zero ("exit"), or the child could not be spawned ("spawnerr"): then
\* the child emits 'error', on which Node calls the exec callback with the error
\* and, next, the listener that launchAVD registered itself.
ExecKinds == {"ok", "exit", "spawnerr"}

\* no key was pressed yet
NoKey == [name |-> "none", ctrl |-> FALSE]

\* ------------------------------------------------------------- state
Init ==
    /\ useInquirer \in BOOLEAN
    /\ listMode \in BOOLEAN
    /\ stdout = <<>>
    /\ discovery = "pending"
    /\ exitBy = "none"
    /\ lastKey = NoKey
    /\ lateClear = FALSE
    /\ pc = "fetch"
    /\ exitCode = -1
    /\ avds = <<>>
    /\ selectedAVDs = <<>>
    /\ selected = <<>>
    /\ currentIndex = 0
    /\ rawMode = FALSE
    /\ listening = FALSE
    /\ timers = 0
    /\ launchMode = "none"
    /\ confirmed = "none"
    /\ lpc = "idle"
    /\ idx = 0
    /\ spawns = <<>>
    /\ resolved = <<>>
    /\ okCount = <<>>
    /\ failCount = <<>>
    /\ emitting = 0
    /\ log = <<>>
    /\ completed = FALSE

Alive == pc # "exited" /\ emitting = 0

\* process.exit(code)
Exit(code, by) == pc' = "exited" /\ exitCode' = code /\ exitBy' = by

\* ------------------------------------------------- the launch scheduler
\* launchAVD: the exec call
Spawn(sp, i) == [sp EXCEPT ![i] = @ + 1]

\* mutant of Settle: a failed exec rejects the promise of launchAVD
SettleRejectsOnError(kind) == IF kind = "ok" THEN "resolve" ELSE "reject"

\* launchAVD: both handlers end in resolve(), whatever the error
Settle(kind) == "resolve"

\* run(): the completion report after the switch, then the "launch more" prompt
\* (inquirer only) or the end of run()
Finish(i, sp, lg) ==
    /\ completed' = TRUE
    /\ log' = Append(lg, <<"done", 0>>)
    /\ lpc' = "idle"
    /\ idx' = i
    /\ spawns' = sp
    /\ pc' = IF useInquirer THEN "more" ELSE "done"
    /\ UNCHANGED exitVars

\* mutant of LaunchAVDsParallel: only the first launch is issued before the wait
LaunchAVDsParallelFirstOnly(sp, lg) ==
    IF Len(sp) = 0
    THEN Finish(0, sp, lg)
    ELSE /\ spawns' = Spawn(sp, 1)
         /\ log' = Append(lg, <<"spawn", 1>>)
         /\ lpc' = "join"
         /\ idx' = 0
         /\ pc' = "launch"
         /\ UNCHANGED <<exitVars, completed>>

\* launchAVDsParallel: map launchAVD over the selection, then await Promise.all
LaunchAVDsParallel(sp, lg) ==
    IF Len(sp) = 0
    THEN Finish(0, sp, lg)
    ELSE /\ spawns' = [j \in 1..Len(sp) |-> sp[j] + 1]
         /\ log' = lg \o [j \in 1..Len(sp) |-> <<"spawn", j>>]
         /\ lpc' = "join"
         /\ idx' = 0
         /\ pc' = "launch"
         /\ UNCHANGED <<exitVars, completed>>

\* mutant of AllSettled: Promise.race in place of Promise.all
AnySettled(res) == \E j \in 1..Len(res) : res[j]

\* Promise.all: every promise is settled
AllSettled(res) == \A j \in 1..Len(res) : res[j]

\* mutant of DelayedHasMore: the test is off by one
DelayedHasMoreOffByOne(i, n) == i <= n

\* launchAVDsDelayed: if (i < this.selectedAVDs.length - 1), i counted from 1 here
DelayedHasMore(i, n) == i < n

\* mutant of DelayedIter: the loop test stops one device early
DelayedIterSkipsLast(i, sp, lg) ==
    IF i < Len(sp)
    THEN /\ idx' = i
         /\ spawns' = Spawn(sp, i)
         /\ log' = Append(lg, <<"spawn", i>>)
         /\ lpc' = "await"
         /\ pc' = "launch"
         /\ UNCHANGED <<exitVars, completed>>
    ELSE Finish(i, sp, lg)

\* mutant of DelayedIter: launchAVD is called without await
DelayedIterNoAwait(i, sp, lg) ==
    IF i > Len(sp)
    THEN Finish(i, sp, lg)
    ELSE IF DelayedHasMore(i, Len(sp))
    THEN /\ idx' = i
         /\ spawns' = Spawn(sp, i)
         /\ log' = lg \o << <<"spawn", i>>, <<"delay", LaunchDelayMs>> >>
         /\ lpc' = "delay"
         /\ pc' = "launch"
         /\ UNCHANGED <<exitVars, completed>>
    ELSE Finish(i, Spawn(sp, i), Append(lg, <<"spawn", i>>))

\* launchAVDsDelayed: the loop test and the body up to await launchAVD
DelayedIter(i, sp, lg) ==
    IF i <= Len(sp)
    THEN /\ idx' = i
         /\ spawns' = Spawn(sp, i)
         /\ log' = Append(lg, <<"spawn", i>>)
         /\ lpc' = "await"
         /\ pc' = "launch"
         /\ UNCHANGED <<exitVars, completed>>
    ELSE Finish(i, sp, lg)

\* mutant of SequentialIter: launchAVD is called without the prompt
SequentialIterNoPrompt(i, sp, lg) ==
    IF i <= Len(sp)
    THEN /\ idx' = i
         /\ lpc' = "await"
         /\ spawns' = Spawn(sp, i)
         /\ log' = Append(lg, <<"spawn", i>>)
         /\ pc' = "launch"
         /\ UNCHANGED <<exitVars, completed>>
    ELSE Finish(i, sp, lg)

\* launchAVDsSequential: the loop test and the body up to the prompt
SequentialIter(i, sp, lg) ==
    IF i <= Len(sp)
    THEN /\ idx' = i
         /\ lpc' = "prompt"
         /\ spawns' = sp
         /\ log' = lg
         /\ pc' = "launch"
         /\ UNCHANGED <<exitVars, completed>>
    ELSE Finish(i, sp, lg)

\* mutant of Awaited: the join of Promise.all is never resumed
AwaitedNoJoin(i) ==
    launchMode \in {"delayed", "sequential"} /\ lpc = "await" /\ idx = i

\* the scheduler awaits the promise of position i
Awaited(i) ==
    \/ launchMode = "parallel" /\ lpc = "join"
    \/ launchMode \in {"delayed", "sequential"} /\ lpc = "await" /\ idx = i

\* what run() does when the promise of position i has settled with out: a
\* rejection is thrown at the await and caught by run()'s catch (exit 1)
Continue(i, out, res, lg) ==
    IF ~Awaited(i)
    THEN log' = lg /\ UNCHANGED <<pc, exitVars, lpc, idx, spawns, completed>>
    ELSE IF out = "reject"
    THEN Exit(1, "error") /\ log' = lg /\ UNCHANGED <<lpc, idx, spawns, completed>>
    ELSE CASE launchMode = "parallel" ->
                IF AllSettled(res)
                THEN Finish(idx, spawns, lg)
                ELSE log' = lg /\ UNCHANGED <<pc, exitVars, lpc, idx, spawns, completed>>
           [] launchMode = "delayed" ->
                IF DelayedHasMore(idx, Len(spawns))
                THEN /\ lpc' = "delay"
                     /\ log' = Append(lg, <<"delay", LaunchDelayMs>>)
                     /\ UNCHANGED <<pc, exitVars, idx, spawns, completed>>
                ELSE DelayedIter(idx + 1, spawns, lg)
           [] launchMode = "sequential" ->
                SequentialIter(idx + 1, spawns, lg)

\* mutant of RunAfterConfirm: the launch does not look at the answer
RunAfterConfirmAlways(c) ==
    /\ confirmed' = IF c THEN "yes" ELSE "no"
    /\ CASE launchMode = "parallel" -> LaunchAVDsParallel(spawns, log)
         [] launchMode = "delayed" -> DelayedIter(1, spawns, log)
         [] launchMode = "sequential" -> SequentialIter(1, spawns, log)

\* run(): if (confirmed) { switch (launchMode) ... } else "Launch cancelled"
RunAfterConfirm(c) ==
    /\ confirmed' = IF c THEN "yes" ELSE "no"
    /\ IF c
       THEN CASE launchMode = "parallel" -> LaunchAVDsParallel(spawns, log)
              [] launchMode = "delayed" -> DelayedIter(1, spawns, log)
              [] launchMode = "sequential" -> SequentialIter(1, spawns, log)
       ELSE pc' = "done" /\ UNCHANGED <<exitVars, schedVars>>

\* mutant of AfterSelect: the strategy prompt is shown for a single device too
AfterSelectAlwaysPrompts(sel) ==
    /\ selectedAVDs' = sel
    /\ spawns' = Zeros(Len(sel))
    /\ resolved' = Falses(Len(sel))
    /\ okCount' = Zeros(Len(sel))
    /\ failCount' = Zeros(Len(sel))
    /\ pc' = "strategy"
    /\ UNCHANGED launchMode

\* selectLaunchOptions, entered when the selector has returned sel
AfterSelect(sel) ==
    /\ selectedAVDs' = sel
    /\ spawns' = Zeros(Len(sel))
    /\ resolved' = Falses(Len(sel))
    /\ okCount' = Zeros(Len(sel))
    /\ failCount' = Zeros(Len(sel))
    /\ IF Len(sel) = 1
       THEN launchMode' = "parallel" /\ pc' = "confirm"
       ELSE pc' = "strategy" /\ UNCHANGED launchMode

\* ------------------------------------------------------------ actions
\* mutant of FetchRejects: an empty device list is not rejected
FetchRejectsErrorOnly(error, out) == error

\* getAVDList: reject(error) on an exec error, reject(new Error('No AVDs
\* found')) when no line is left
FetchRejects(error, out) == error \/ Len(out) = 0

\* getAVDList: the exec callback of the discovery command.  A rejection is
\* caught by printAVDs (--list) or by run(), both exit with 1.  With --list the
\* list is written and the process exits with 0; otherwise run() goes on to
\* the selector's first wait
FetchCallback(error, out) ==
    /\ pc = "fetch" /\ Alive
    /\ discovery' = IF error THEN "error" ELSE IF Len(out) = 0 THEN "empty" ELSE "ok"
    /\ IF FetchRejects(error, out)
       THEN /\ Exit(1, "error")
            /\ UNCHANGED <<avds, selectorVars>>
       ELSE IF listMode
       THEN /\ Exit(0, "list")
            /\ UNCHANGED <<avds, selectorVars>>
       ELSE /\ avds' = out
            /\ pc' = "select"
            /\ UNCHANGED exitVars
            /\ IF useInquirer
               THEN UNCHANGED selectorVars
               ELSE /\ selected' = Falses(Len(out))
                    /\ currentIndex' = 0
                    /\ rawMode' = TRUE
                    /\ listening' = TRUE
                    /\ UNCHANGED timers
    /\ UNCHANGED <<fixedVars, lastKey, lateClear, selectedAVDs, launchMode, confirmed,
                   schedVars, reportVars>>

\* mutant of EmptySelection: the empty confirm is not rejected
EmptySelectionAccepted(sel) == FALSE

\* selectAVDsBuiltIn: case 'return' rejects when nothing is checked
EmptySelection(sel) == Len(sel) = 0

\* mutant of Keypress: the cursor stops at the ends of the menu
KeypressNoWrap(key) ==
    /\ pc = "select" /\ listening /\ Alive
    /\ CASE key.name = "up" ->
              /\ currentIndex' = IF currentIndex > 0 THEN currentIndex - 1
                                 ELSE currentIndex
              /\ UNCHANGED <<selected, rawMode, listening, timers, pc, exitVars,
                             selectedAVDs, launchMode, spawns, reportVars>>
         [] key.name = "down" ->
              /\ currentIndex' = IF currentIndex < Len(avds) - 1 THEN currentIndex + 1
                                 ELSE currentIndex
              /\ UNCHANGED <<selected, rawMode, listening, timers, pc, exitVars,
                             selectedAVDs, launchMode, spawns, reportVars>>
         [] key.name = "space" ->
              /\ selected' = [selected EXCEPT ![currentIndex + 1] = ~@]
              /\ UNCHANGED <<currentIndex, rawMode, listening, timers, pc, exitVars,
                             selectedAVDs, launchMode, spawns, reportVars>>
         [] key.name = "return" ->
              LET sel == FilterByIndex(avds, selected, 1) IN
              IF EmptySelection(sel)
              THEN /\ timers < MaxTimers
                   /\ timers' = timers + 1
                   /\ UNCHANGED <<selected, currentIndex, rawMode, listening, pc,
                                  exitVars, selectedAVDs, launchMode, spawns,
                                  reportVars>>
              ELSE /\ rawMode' = FALSE
                   /\ listening' = FALSE
                   /\ AfterSelect(sel)
                   /\ UNCHANGED <<selected, currentIndex, timers, exitVars, emitting>>
         [] key.name = "q" \/ (key.name = "c" /\ key.ctrl) ->
              /\ Exit(0, "quit")
              /\ UNCHANGED <<selectorVars, selectedAVDs, launchMode, spawns,
                             reportVars>>
         [] OTHER ->
              UNCHANGED <<selectorVars, pc, exitVars, selectedAVDs, launchMode,
                          spawns, reportVars>>
    /\ lastKey' = key
    /\ UNCHANGED <<fixedVars, discovery, lateClear, avds, confirmed, lpc, idx, log,
                   completed>>

\* selectAVDsBuiltIn: handleKeypress
Keypress(key) ==
    /\ pc = "select" /\ listening /\ Alive
    /\ CASE key.name = "up" ->
              /\ currentIndex' = IF currentIndex > 0 THEN currentIndex - 1
                                 ELSE Len(avds) - 1
              /\ UNCHANGED <<selected, rawMode, listening, timers, pc, exitVars,
                             selectedAVDs, launchMode, spawns, reportVars>>
         [] key.name = "down" ->
              /\ currentIndex' = IF currentIndex < Len(avds) - 1 THEN currentIndex + 1
                                 ELSE 0
              /\ UNCHANGED <<selected, rawMode, listening, timers, pc, exitVars,
                             selectedAVDs, launchMode, spawns, reportVars>>
         [] key.name = "space" ->
              /\ selected' = [selected EXCEPT ![currentIndex + 1] = ~@]
              /\ UNCHANGED <<currentIndex, rawMode, listening, timers, pc, exitVars,
                             selectedAVDs, launchMode, spawns, reportVars>>
         [] key.name = "return" ->
              LET sel == FilterByIndex(avds, selected, 1) IN
              IF EmptySelection(sel)
              THEN /\ timers < MaxTimers
                   /\ timers' = timers + 1
                   /\ UNCHANGED <<selected, currentIndex, rawMode, listening, pc,
                                  exitVars, selectedAVDs, launchMode, spawns,
                                  reportVars>>
              ELSE /\ rawMode' = FALSE
                   /\ listening' = FALSE
                   /\ AfterSelect(sel)
                   /\ UNCHANGED <<selected, currentIndex, timers, exitVars, emitting>>
         [] key.name = "q" \/ (key.name = "c" /\ key.ctrl) ->
              /\ Exit(0, "quit")
              /\ UNCHANGED <<selectorVars, selectedAVDs, launchMode, spawns,
                             reportVars>>
         [] OTHER ->
              UNCHANGED <<selectorVars, pc, exitVars, selectedAVDs, launchMode,
                          spawns, reportVars>>
    /\ lastKey' = key
    /\ UNCHANGED <<fixedVars, discovery, lateClear, avds, confirmed, lpc, idx, log,
                   completed>>

\* the timer set by a rejected confirm: displayMenu(), which clears the console
RedrawTimer ==
    /\ timers > 0 /\ Alive
    /\ timers' = timers - 1
    /\ lateClear' = (lateClear \/ pc # "select")
    /\ UNCHANGED <<fixedVars, discovery, lastKey, pc, exitVars, avds, selectedAVDs,
                   selected,
                   currentIndex, rawMode, listening, launchMode, confirmed,
                   schedVars, reportVars>>

\* selectAVDsInquirer: the checkbox prompt is submitted with the positions
\* input checked; validate keeps the prompt open on an empty input
InquirerSelect(input) ==
    /\ pc = "select" /\ useInquirer /\ Alive
    /\ LET sel == FilterByIndex(avds, [j \in 1..Len(avds) |-> j \in input], 1) IN
       IF Len(sel) = 0
       THEN UNCHANGED <<pc, selectedAVDs, launchMode, spawns, reportVars>>
       ELSE AfterSelect(sel) /\ UNCHANGED emitting
    /\ UNCHANGED <<fixedVars, discovery, lastKey, lateClear, exitVars, avds,
                   selectorVars, confirmed,
                   lpc, idx, log, completed>>

\* selectLaunchOptions, built-in: switch (answer.trim())
StrategyOf(answer) ==
    CASE Trim(answer) = <<"1">> -> "parallel"
      [] Trim(answer) = <<"2">> -> "delayed"
      [] Trim(answer) = <<"3">> -> "sequential"
      [] OTHER -> "parallel"

\* selectLaunchOptions: the strategy prompt is answered; confirmLaunch prompts
StrategyAnswer(answer) ==
    /\ pc = "strategy" /\ Alive
    /\ launchMode' = IF useInquirer THEN answer ELSE StrategyOf(answer)
    /\ pc' = "confirm"
    /\ UNCHANGED <<fixedVars, discovery, lastKey, lateClear, exitVars, avds,
                   selectedAVDs, selectorVars,
                   confirmed, schedVars, reportVars>>

\* confirmLaunch, built-in: answer.toLowerCase().startsWith('y')
ConfirmOf(answer) == StartsWith(ToLowerCase(answer), "y")

\* confirmLaunch: the prompt is answered, and run() goes on
ConfirmAnswer(answer) ==
    /\ pc = "confirm" /\ Alive
    /\ RunAfterConfirm(IF useInquirer THEN answer ELSE ConfirmOf(answer))
    /\ UNCHANGED <<fixedVars, discovery, lastKey, lateClear, avds, selectedAVDs,
                   selectorVars, launchMode,
                   reportVars>>

\* launchAVD: the callback of exec, for the exec of position i
ExecCallback(i, kind) ==
    /\ pc = "launch" /\ Alive
    /\ i \in 1..Len(spawns) /\ spawns[i] > 0 /\ ~resolved[i]
    /\ IF kind = "ok"
       THEN okCount' = [okCount EXCEPT ![i] = @ + 1] /\ UNCHANGED failCount
       ELSE failCount' = [failCount EXCEPT ![i] = @ + 1] /\ UNCHANGED okCount
    /\ resolved' = [resolved EXCEPT ![i] = TRUE]
    /\ IF kind = "spawnerr"
       THEN /\ emitting' = i
            /\ log' = Append(log, <<"settle", i>>)
            /\ UNCHANGED <<pc, exitVars, lpc, idx, spawns, completed>>
       ELSE /\ emitting' = 0
            /\ Continue(i, Settle(kind), resolved', Append(log, <<"settle", i>>))
    /\ UNCHANGED <<fixedVars, discovery, lastKey, lateClear, avds, selectedAVDs,
                   selectorVars, launchMode,
                   confirmed>>

\* launchAVD: child.on('error'), called in the same emit right after the exec
\* callback; its resolve() finds the promise settled
ErrorListener(i) ==
    /\ pc = "launch" /\ emitting = i /\ i > 0
    /\ failCount' = [failCount EXCEPT ![i] = @ + 1]
    /\ emitting' = 0
    /\ Continue(i, Settle("spawnerr"), resolved, log)
    /\ UNCHANGED <<fixedVars, discovery, lastKey, lateClear, avds, selectedAVDs,
                   selectorVars, launchMode,
                   confirmed, resolved, okCount>>

\* launchAVDsDelayed: the 3000 ms timer fires; i++ and the next iteration
DelayTimer ==
    /\ pc = "launch" /\ lpc = "delay" /\ Alive
    /\ DelayedIter(idx + 1, spawns, log)
    /\ UNCHANGED <<fixedVars, discovery, lastKey, lateClear, avds, selectedAVDs,
                   selectorVars, launchMode,
                   confirmed, reportVars>>

\* launchAVDsSequential: the "Press Enter to launch" prompt is answered, and
\* launchAVD is called
Acknowledge ==
    /\ pc = "launch" /\ lpc = "prompt" /\ Alive
    /\ log' = log \o << <<"ack", idx>>, <<"spawn", idx>> >>
    /\ spawns' = Spawn(spawns, idx)
    /\ lpc' = "await"
    /\ UNCHANGED <<fixedVars, discovery, lastKey, lateClear, pc, exitVars, avds,
                   selectedAVDs, selectorVars,
                   launchMode, confirmed, idx, completed, reportVars>>

\* mutant of LaunchMore: the restart keeps the inventory of the previous run
LaunchMoreSkipsFetch(more) ==
    /\ pc = "more" /\ Alive
    /\ IF more
       THEN /\ pc' = "select"
            /\ UNCHANGED discovery
            /\ launchMode' = "none"
            /\ confirmed' = "none"
            /\ lpc' = "idle"
            /\ idx' = 0
            /\ spawns' = <<>>
            /\ resolved' = <<>>
            /\ okCount' = <<>>
            /\ failCount' = <<>>
            /\ log' = <<>>
            /\ completed' = FALSE
            /\ UNCHANGED emitting
       ELSE /\ pc' = "done"
            /\ UNCHANGED <<discovery, launchMode, confirmed, schedVars, reportVars>>
    /\ UNCHANGED <<fixedVars, lastKey, lateClear, exitVars, avds, selectedAVDs,
                   selectorVars>>

\* run(): the "launch more" prompt is answered; yes calls run() again
LaunchMore(more) ==
    /\ pc = "more" /\ Alive
    /\ IF more
       THEN /\ pc' = "fetch"
            /\ discovery' = "pending"
            /\ launchMode' = "none"
            /\ confirmed' = "none"
            /\ lpc' = "idle"
            /\ idx' = 0
            /\ spawns' = <<>>
            /\ resolved' = <<>>
            /\ okCount' = <<>>
            /\ failCount' = <<>>
            /\ log' = <<>>
            /\ completed' = FALSE
            /\ UNCHANGED emitting
       ELSE /\ pc' = "done"
            /\ UNCHANGED <<discovery, launchMode, confirmed, schedVars, reportVars>>
    /\ UNCHANGED <<fixedVars, lastKey, lateClear, exitVars, avds, selectedAVDs,
                   selectorVars>>

\* mutant of Interrupt: the handler exits with 1
InterruptExitsOne ==
    /\ Alive
    /\ Exit(1, "signal")
    /\ UNCHANGED <<fixedVars, discovery, lastKey, lateClear, avds, selectedAVDs,
                   selectorVars, launchMode, confirmed, schedVars, reportVars>>

\* process.on('SIGINT') / process.on('SIGTERM')
Interrupt ==
    /\ Alive
    /\ Exit(0, "signal")
    /\ UNCHANGED <<fixedVars, discovery, lastKey, lateClear, avds, selectedAVDs,
                   selectorVars, launchMode,
                   confirmed, schedVars, reportVars>>

Next ==
    \/ \E error \in BOOLEAN, out \in Inventories : FetchCallback(error, out)
    \/ \E key \in Keys : Keypress(key)
    \/ RedrawTimer
    \/ \E input \in SUBSET (1..Len(avds)) : InquirerSelect(input)
    \/ \E answer \in (IF useInquirer THEN LaunchModes ELSE StrategyAnswers) :
          StrategyAnswer(answer)
    \/ \E answer \in (IF useInquirer THEN BOOLEAN ELSE ConfirmAnswers) :
          ConfirmAnswer(answer)
    \/ \E i \in 1..MaxAvds + 1, kind \in ExecKinds : ExecCallback(i, kind)
    \/ \E i \in 1..MaxAvds + 1 : ErrorListener(i)
    \/ DelayTimer
    \/ Acknowledge
    \/ \E more \in BOOLEAN : LaunchMore(more)
    \/ Interrupt

Spec == Init /\ [][Next]_vars

\* ------------------------------------------------------------ properties
Pos == 1..Len(spawns)

\* the spawns issued and not yet settled
InFlight == {i \in Pos : spawns[i] > 0 /\ ~resolved[i]}

\* the reports (success or failure) written for position i
Reports(i) == okCount[i] + failCount[i]

\* the places of the log that hold the event ev
Places(ev) == {k \in 1..Len(log) : log[k] = ev}

\* some ev is in the log, and the first ev0 comes before it
Precedes(ev0, ev) ==
    \E k \in Places(ev0) : \A m \in Places(ev) : k < m

IsPrefix(a, b) == Len(a) <= Len(b) /\ SubSeq(b, 1, Len(a)) = a

\* C1: when the scheduler has finished, every selected device has exactly one
\* outcome report (a success or a failure), none twice and none missing
C1_OneOutcomePerDevice ==
    completed =>
        /\ Len(spawns) = Len(selectedAVDs)
        /\ \A i \in Pos : Reports(i) = 1

\* C2: under every strategy the Process Spawner is called exactly once per
\* selected device: never more than once at any time (no retry after a
\* failure), and once for every device when the scheduler has finished
C2_SpawnedExactlyOnce ==
    /\ \A i \in Pos : spawns[i] <= 1
    /\ completed =>
          /\ Len(spawns) = Len(selectedAVDs)
          /\ \A i \in Pos : spawns[i] = 1

C2_Witness ==
    /\ completed
    /\ launchMode = "delayed"
    /\ Len(spawns) >= 2
    /\ failCount[1] > 0
    /\ spawns[1] = 1

\* C3: a failed spawn is reported as a failure and nothing more: the devices
\* after it are spawned all the same, the scheduler finishes, and the process
\* does not exit with code 1 in a run where a spawn failed
C3_FailureDoesNotAbort ==
    /\ \A i \in Pos : failCount[i] > 0 => resolved[i]
    /\ completed =>
          \A i \in Pos : failCount[i] > 0 =>
              \A j \in Pos : j > i => spawns[j] >= 1
    /\ (\E i \in Pos : failCount[i] > 0) => ~(pc = "exited" /\ exitCode = 1)

C3_Witness ==
    /\ completed
    /\ Len(spawns) >= 3
    /\ failCount[1] > 0
    /\ okCount[2] > 0
    /\ failCount[3] > 0

\* the log of a Delayed launch of positions i..n: spawn and settle of each, a
\* delay of the fixed interval between two devices, the completion report last
RECURSIVE DelayedPattern(_, _)
DelayedPattern(i, n) ==
    IF i > n THEN << <<"done", 0>> >>
    ELSE << <<"spawn", i>>, <<"settle", i>> >>
         \o (IF i = n THEN <<>> ELSE << <<"delay", 3000>> >>)
         \o DelayedPattern(i + 1, n)

DelayCount == Cardinality({k \in 1..Len(log) : log[k][1] = "delay"})

\* C4: a Delayed launch of N >= 2 devices spawns them in Selection order with
\* one 3000 ms delay after each settle but the last: N-1 delays when it has
\* finished, never one after the last device; a single device is launched
\* with no delay
C4_DelayedOrderAndDelays ==
    /\ launchMode = "delayed" =>
          /\ Len(spawns) >= 2
          /\ IsPrefix(log, DelayedPattern(1, Len(spawns)))
          /\ completed => DelayCount = Len(spawns) - 1
    /\ Len(spawns) = 1 => DelayCount = 0

C4_Witness ==
    /\ completed
    /\ launchMode = "delayed"
    /\ Len(spawns) >= 3
    /\ DelayCount = 2

\* C5: under Sequential every spawn comes right after the acknowledgment for
\* that device, the acknowledgment for a device after the first comes after the
\* settle of the device before it, and the devices are spawned in Selection order
C5_SequentialAcknowledged ==
    launchMode = "sequential" =>
        \A k \in 1..Len(log) : log[k][1] = "spawn" =>
            LET i == log[k][2] IN
            /\ k >= 2 /\ log[k - 1] = <<"ack", i>>
            /\ i > 1 => k >= 3 /\ log[k - 2] = <<"settle", i - 1>>
            /\ \A m \in 1..(k - 1) : log[m][1] = "spawn" => log[m][2] < i

C5_Witness ==
    /\ launchMode = "sequential"
    /\ lpc = "await"
    /\ idx = 2
    /\ spawns[2] = 1
    /\ failCount[1] > 0

\* C6: under Delayed and Sequential at most one spawn is in flight
C6_Serialized ==
    launchMode \in {"delayed", "sequential"} => Cardinality(InFlight) <= 1

C6_Witness ==
    /\ launchMode = "delayed"
    /\ idx >= 2
    /\ InFlight = {idx}
    /\ resolved[idx - 1]

\* C7: under Parallel the completion report, and the "launch more" prompt
\* after it, come only when every spawn has settled
C7_ParallelJoined ==
    /\ launchMode = "parallel" /\ completed => \A i \in Pos : resolved[i]
    /\ pc = "more" => completed /\ InFlight = {}

C7_Witness ==
    /\ launchMode = "parallel"
    /\ completed
    /\ Len(spawns) >= 2
    /\ Precedes(<<"settle", 2>>, <<"settle", 1>>)

\* C8: under Parallel every spawn is issued before the scheduler waits: while
\* it waits all N are issued, and in the log the N spawns come before any settle
C8_ParallelOverlap ==
    launchMode = "parallel" =>
        /\ lpc = "join" => \A i \in Pos : spawns[i] = 1
        /\ \A k \in 1..Len(log) : log[k][1] = "settle" =>
              /\ k > Len(spawns)
              /\ \A i \in Pos : log[i] = <<"spawn", i>>

C8_Witness ==
    /\ launchMode = "parallel"
    /\ lpc = "join"
    /\ Len(spawns) >= 3
    /\ resolved[3] /\ ~resolved[1] /\ ~resolved[2]
    /\ InFlight = {1, 2}

NoneChecked == \A i \in 1..Len(selected) : ~selected[i]

\* C9: the strategy prompt, the confirmation gate and the scheduler are only
\* reached with a non-empty Selection, and no step of the raw-keyboard selector
\* taken while nothing is checked leaves the selector, but to exit the process
C9_SelectionNeverEmpty ==
    /\ [](pc \in {"strategy", "confirm", "launch", "more", "done"} =>
              Len(selectedAVDs) >= 1)
    /\ [][(pc = "select" /\ listening /\ NoneChecked /\ selected' = selected) =>
              pc' \in {"select", "exited"}]_vars

C9_Witness ==
    /\ pc = "confirm"
    /\ ~useInquirer
    /\ timers > 0
    /\ Len(selectedAVDs) >= 1

\* C10: spawns, and the completion report, exist only in a run whose
\* confirmation gate returned true; the gate is asked with the selection and
\* the strategy chosen and no spawn issued; after a declined gate the run has
\* ended with no spawn and no completion report
C10_GateGuardsLaunch ==
    /\ ((\E i \in Pos : spawns[i] > 0) \/ completed \/ pc \in {"launch", "more"}) =>
          confirmed = "yes"
    /\ pc = "confirm" =>
          /\ confirmed = "none"
          /\ Len(selectedAVDs) >= 1
          /\ launchMode \in LaunchModes
          /\ \A i \in Pos : spawns[i] = 0
    /\ confirmed = "no" =>
          /\ pc \in {"done", "exited"}
          /\ \A i \in Pos : spawns[i] = 0
          /\ log = <<>>
          /\ ~completed

C10_Witness ==
    /\ confirmed = "no"
    /\ pc = "done"
    /\ Len(selectedAVDs) >= 2
    /\ launchMode = "sequential"

\* C11: a failed discovery (an exec error, or no device in the output) is
\* fatal: the process has exited with 1, by the catch and not by the listing's
\* exit 0, and in this run no selector was entered, no gate asked, no spawn issued
C11_DiscoveryFailureFatal ==
    discovery \in {"error", "empty"} =>
        /\ pc = "exited"
        /\ exitCode = 1
        /\ exitBy = "error"
        /\ ~listening /\ ~rawMode
        /\ confirmed = "none"
        /\ spawns = <<>>
        /\ log = <<>>

C11_Witness ==
    /\ listMode
    /\ discovery = "empty"
    /\ pc = "exited"

\* the points at which run() waits
Suspended ==
    /\ pc \in {"fetch", "select", "strategy", "confirm", "launch", "more"}
    /\ emitting = 0

\* C12: at every point where run() waits a signal can be handled, the handler
\* ends the process with exit code 0 (as do q and Ctrl-C in the raw-keyboard
\* menu), and nothing happens after the exit, so no spawn is issued any more
C12_InterruptExitsZero ==
    /\ Suspended => ENABLED Interrupt
    /\ exitBy \in {"signal", "quit"} => pc = "exited" /\ exitCode = 0
    /\ pc = "exited" => ~ENABLED Next

C12_Witness ==
    /\ exitBy = "signal"
    /\ launchMode = "delayed"
    /\ lpc = "delay"
    /\ Len(spawns) >= 2
    /\ spawns[2] = 0

\* C13: when the raw-keyboard selector has ended, by returning or by ending the
\* process itself (q, Ctrl-C), stdin is not in raw mode
C13_RawModeRestored ==
    (pc # "select" /\ exitBy # "signal") => ~rawMode

\* C14: the strategy prompt is shown only for two or more selected devices; a
\* single selected device reaches the confirmation gate with Parallel chosen
C14_SingleSelectionParallel ==
    /\ pc = "strategy" => Len(selectedAVDs) >= 2 /\ launchMode = "none"
    /\ ((pc = "confirm" \/ confirmed # "none") /\ Len(selectedAVDs) = 1) =>
          launchMode = "parallel"

C14_Witness ==
    /\ pc = "confirm"
    /\ ~useInquirer
    /\ Len(avds) >= 2
    /\ Len(selectedAVDs) = 1
    /\ launchMode = "parallel"

\* ------------------------------------------------- the Inventory Lister
\* getAVDList on its own: the command's output is any text over Chars
ParseInit ==
    /\ stdout \in Outputs
    /\ useInquirer = FALSE
    /\ listMode = TRUE
    /\ discovery = "pending"
    /\ exitBy = "none"
    /\ lastKey = NoKey
    /\ lateClear = FALSE
    /\ pc = "fetch"
    /\ exitCode = -1
    /\ avds = <<>>
    /\ selectedAVDs = <<>>
    /\ selected = <<>>
    /\ currentIndex = 0
    /\ rawMode = FALSE
    /\ listening = FALSE
    /\ timers = 0
    /\ launchMode = "none"
    /\ confirmed = "none"
    /\ lpc = "idle"
    /\ idx = 0
    /\ spawns = <<>>
    /\ resolved = <<>>
    /\ okCount = <<>>
    /\ failCount = <<>>
    /\ emitting = 0
    /\ log = <<>>
    /\ completed = FALSE

\* the exec callback of getAVDList when the command succeeded, and printAVDs
GetAVDList ==
    /\ pc = "fetch"
    /\ LET list == ParseAVDs(stdout)
       IN /\ avds' = list
          /\ discovery' = IF Len(list) = 0 THEN "empty" ELSE "ok"
          /\ IF Len(list) = 0 THEN Exit(1, "error") ELSE Exit(0, "list")
    /\ UNCHANGED <<fixedVars, lastKey, lateClear, selectedAVDs, selectorVars,
                   launchMode, confirmed, schedVars, reportVars>>

ParseNext == GetAVDList

ParseSpec == ParseInit /\ [][ParseNext]_vars

\* the reference parse: split into lines, trim each line, drop the empty ones
RECURSIVE TrimEach(_)
TrimEach(lines) ==
    IF lines = <<>> THEN <<>>
    ELSE (IF Trim(Head(lines)) # <<>> THEN <<Trim(Head(lines))>> ELSE <<>>)
         \o TrimEach(Tail(lines))

ReferenceParse(out) == TrimEach(Split(out, "\n"))

\* C15: the list getAVDList produces equals the reference parse of the
\* command's output (lines split, each trimmed, empty ones dropped, order kept)
C15_ParseMatchesReference ==
    pc = "exited" => avds = ReferenceParse(stdout)

\* ------------------------------------------------- the selector and the loop
\* a step of handleKeypress: the listener is attached, no timer fired and no
\* signal arrived; lastKey' is the key it handled
KeyStep ==
    /\ pc = "select"
    /\ listening
    /\ timers' >= timers
    /\ exitBy' # "signal"

\* the raw-keyboard selector has returned its selection
Returned ==
    /\ ~useInquirer
    /\ ~listening
    /\ selectedAVDs # <<>>

\* C16: while the menu is shown the cursor is within 0..N-1; up and down move
\* it by one modulo N and leave the checked array as it was
C16_CursorWraps ==
    /\ []((pc = "select" /\ listening) =>
            (Len(avds) >= 1 /\ currentIndex \in 0..(Len(avds) - 1)))
    /\ [][KeyStep =>
            /\ lastKey'.name = "up" =>
                  /\ currentIndex' = (currentIndex + Len(avds) - 1) % Len(avds)
                  /\ selected' = selected
            /\ lastKey'.name = "down" =>
                  /\ currentIndex' = (currentIndex + 1) % Len(avds)
                  /\ selected' = selected]_vars

C16_Witness ==
    /\ pc = "select"
    /\ listening
    /\ Len(avds) >= 2
    /\ lastKey.name = "up"
    /\ currentIndex = Len(avds) - 1
    /\ \E j \in 1..Len(selected) : selected[j]

\* the number of checked positions up to position i
Rank(i) == Cardinality({j \in 1..i : selected[j]})

\* C17: space flips the flag under the cursor and nothing else; the selection
\* an accepted confirm returns holds the checked positions of the inventory in
\* inventory order, one entry per checked position, all taken from the inventory
C17_ToggleAndConfirm ==
    /\ [][(KeyStep /\ lastKey'.name = "space") =>
            /\ currentIndex' = currentIndex
            /\ Len(selected') = Len(selected)
            /\ \A j \in 1..Len(selected) :
                  selected'[j] = IF j = currentIndex + 1 THEN ~selected[j]
                                 ELSE selected[j]]_vars
    /\ [](Returned =>
            /\ Len(selectedAVDs) = Rank(Len(avds))
            /\ \A i \in 1..Len(avds) : selected[i] => selectedAVDs[Rank(i)] = avds[i]
            /\ \A k \in 1..Len(selectedAVDs) :
                  \E i \in 1..Len(avds) : selectedAVDs[k] = avds[i])

C17_Witness ==
    /\ Returned
    /\ lastKey.name = "return"
    /\ Len(avds) >= 2
    /\ avds[1] = avds[2]
    /\ ~selected[1]
    /\ selected[2]
    /\ Len(selectedAVDs) = 1

\* every entry of sel is an entry of inv
PicksFrom(sel, inv) ==
    \A k \in 1..Len(sel) : \E i \in 1..Len(inv) : sel[k] = inv[i]

\* C18: the "launch more" prompt follows a confirmed launch whose spawns have
\* all settled; yes goes back to the discovery with the strategy, the
\* confirmation and the launch state cleared, and the next selection is taken
\* from the new inventory; after no, or a declined confirmation, no spawn is
\* issued and the run is over
C18_LaunchMoreRestarts ==
    /\ [](pc = "more" =>
            /\ useInquirer
            /\ confirmed = "yes"
            /\ completed
            /\ \A i \in 1..Len(spawns) : spawns[i] = 1 /\ resolved[i])
    /\ [](pc \in {"fetch", "select", "strategy", "confirm"} =>
            /\ confirmed = "none"
            /\ log = <<>>
            /\ ~completed
            /\ \A i \in 1..Len(spawns) : spawns[i] = 0 /\ ~resolved[i])
    /\ [](pc \in {"fetch", "select"} => launchMode = "none" /\ spawns = <<>>)
    /\ [](pc \in {"strategy", "confirm", "launch", "more"} =>
            PicksFrom(selectedAVDs, avds))
    /\ [][pc = "more" =>
            \/ pc' = "fetch" /\ discovery' = "pending"
            \/ pc' \in {"done", "exited"}]_vars
    /\ [][(pc \in {"done", "exited"} \/ confirmed = "no") =>
            /\ spawns' = spawns
            /\ log' = log
            /\ pc' \in {"done", "exited"}]_vars

\* a later run at its selector, with an inventory that lacks the device
\* selected in the run before
C18_Witness ==
    /\ pc = "select"
    /\ discovery = "ok"
    /\ selectedAVDs # <<>>
    /\ ~PicksFrom(selectedAVDs, avds)
    /\ launchMode = "none"
    /\ spawns = <<>>

\* C20: once the raw-keyboard selector has returned, no redraw timer of the
\* menu clears the screen and no keypress is handled by the menu any more
C20_SelectorQuiescent ==
    /\ ~lateClear
    /\ Returned => \A key \in Keys : ~ENABLED Keypress(key)

\* ------------------------------------------------- progress of the launch
\* every exec calls back, a spawn error reaches the 'error' listener, the
\* 3000 ms timer fires and the user answers each "Press Enter" prompt
LiveSpec ==
    /\ Init
    /\ [][Next]_vars
    /\ WF_vars(\E i \in 1..MaxAvds + 1, kind \in ExecKinds : ExecCallback(i, kind))
    /\ WF_vars(\E i \in 1..MaxAvds + 1 : ErrorListener(i))
    /\ WF_vars(DelayTimer)
    /\ WF_vars(Acknowledge)

\* C19: a launch that has started reaches its completion report, whatever the
\* strategy and the selection, unless a signal ends the process first; the
\* only steps it needs are exec callbacks, the delay timer and acknowledgments
C19_LaunchCompletes ==
    (pc = "launch") ~> (completed \/ exitBy = "signal")

C19_Witness ==
    /\ completed
    /\ launchMode = "sequential"
    /\ Len(selectedAVDs) >= 2
    /\ \E i \in 1..Len(failCount) : failCount[i] > 0

====
